---- MODULE Spec2Model ----
(***************************************************************************)
(* A model of pullTiles.py: RegionalAMapDownloader.  The coordinate        *)
(* generator, one download_tile call broken into the steps at which other  *)
(* threads can observe it, the ThreadPoolExecutor that runs the calls, and *)
(* the submitting / collecting control flow of run().                      *)
(***************************************************************************)
EXTENDS Integers, Sequences, FiniteSets, TLC

VARIABLES
    config,      \* self.config: z_start, z_end, max_workers, overwrite
    files,       \* the file store: path {z}/{x}/{y}.png -> content
    dirs,        \* the directories {z}/{x} that exist under save_dir
    mainpc,      \* position of the thread that executes run()
    gen,         \* state of the generate_coordinates() generator being consumed
    yielded,     \* the triples the current enumeration has yielded so far
    first,       \* the triples the enumeration of line 79 yielded (history)
    total,       \* run(): total
    futures,     \* run(): futures, one record per submitted download_tile call
    downloaded,  \* self.downloaded
    success,     \* run(): success
    idx,         \* run(): number of futures whose result() was taken (i)
    printed,     \* the progress lines printed at line 98
    faults,      \* number of failing steps the environment has injected
    pauses,      \* number of time.sleep(request_interval) of line 89 so far
    probe        \* one application of _get_tile_range's arithmetic: corners, result

vars == <<config, files, dirs, mainpc, gen, yielded, first, total, futures,
          downloaded, success, idx, printed, faults, pauses, probe>>

\* ------------------------------------------------------------------ bounds

\* Largest zoom level the generator-only specification enumerates.
MaxZoom == 3
\* Number of failing steps (non-200, transport error, filesystem error) the
\* environment may inject into one behaviour.
MaxFaults == 3
\* The same, for a run with more than one worker thread.
MaxRaceFaults == 1
\* Number of direct download_tile calls of the sequential-call specification.
MaxCalls == 2

\* ------------------------------------------------------- program constants

\* range(3) at line 63
Retries == 3
\* i % 100 at line 96
ProgressEvery == 100
\* time.sleep(1) at line 71
StatusSleep == 1
\* Denominator of the fixed-point Mercator fractions below.
MercScale == 65536

RECURSIVE Pow2(_)
Pow2(k) == IF k = 0 THEN 1 ELSE 2 * Pow2(k - 1)

Min(a, b) == IF a < b THEN a ELSE b
Max(a, b) == IF a > b THEN a ELSE b

\* ------------------------------------------------------ coordinate generator

\* The bounds of line 23-28 in hundredths of a degree.
bounds == [min_lon |-> 12085, max_lon |-> 12220, min_lat |-> 3067, max_lat |-> 3188]

\* (1 - asinh(tan(lat)) / pi) / 2 of line 17 for the two latitudes of bounds,
\* as floor(fraction * MercScale): 0.40648... for 31.88, 0.41041... for 30.67.
MercFraction(lat) == IF lat = 3188 THEN 26639 ELSE 26897

\* Line 12-18: int() of the Web-Mercator tile position.
_latlon_to_tile(lat, lon, zoom) ==
    LET n == Pow2(zoom)
    IN  << ((lon + 18000) * n) \div 36000, (MercFraction(lat) * n) \div MercScale >>

\* Line 36-39 without max(0, ...) and min(max_tile, ...).
tile_range_of_unclipped(x1, y1, x2, y2, zoom) ==
    [x_min |-> Min(x1, x2) - 1, x_max |-> Max(x1, x2) + 1,
     y_min |-> Min(y1, y2) - 1, y_max |-> Max(y1, y2) + 1]

\* Line 35-41: the rectangle of two corner tiles, one tile wider on every
\* side, clipped to the grid of the zoom level.
tile_range_of(x1, y1, x2, y2, zoom) ==
    LET max_tile == Pow2(zoom) - 1
    IN  [x_min |-> Max(0, Min(x1, x2) - 1),
         x_max |-> Min(max_tile, Max(x1, x2) + 1),
         y_min |-> Max(0, Min(y1, y2) - 1),
         y_max |-> Min(max_tile, Max(y1, y2) + 1)]

\* Line 20-41.
_get_tile_range(zoom) ==
    LET c1 == _latlon_to_tile(bounds.max_lat, bounds.min_lon, zoom)
        c2 == _latlon_to_tile(bounds.min_lat, bounds.max_lon, zoom)
    IN  tile_range_of(c1[1], c1[2], c2[1], c2[2], zoom)

\* The generator of line 43-51 as an iterator.  Its state is the triple it
\* will yield next, or Exhausted.
Exhausted == [live |-> FALSE]

\* Entering the body of "for z" at zoom z: the first triple of the first zoom
\* level from z on whose two inner ranges are not empty.
RECURSIVE gen_enter(_, _)
gen_enter(z, z_end) ==
    IF z > z_end THEN Exhausted
    ELSE LET r == _get_tile_range(z)
         IN  IF r.x_min > r.x_max \/ r.y_min > r.y_max
             THEN gen_enter(z + 1, z_end)
             ELSE [live |-> TRUE, z |-> z, x |-> r.x_min, y |-> r.y_min]

\* Calling generate_coordinates(): nothing runs before the first next().
generate_coordinates(cfg) == gen_enter(cfg.z_start, cfg.z_end)

\* Resuming after a yield: y inner loop, x outer loop, then the next zoom.
gen_resume_wrong_order(g, cfg) ==
    LET r == _get_tile_range(g.z)
    IN  IF g.x < r.x_max THEN [g EXCEPT !.x = g.x + 1]
        ELSE IF g.y < r.y_max THEN [g EXCEPT !.x = r.x_min, !.y = g.y + 1]
        ELSE gen_enter(g.z + 1, cfg.z_end)

gen_resume(g, cfg) ==
    LET r == _get_tile_range(g.z)
    IN  IF g.y < r.y_max THEN [g EXCEPT !.y = g.y + 1]
        ELSE IF g.x < r.x_max THEN [g EXCEPT !.x = g.x + 1, !.y = r.y_min]
        ELSE gen_enter(g.z + 1, cfg.z_end)

Triple(g) == <<g.z, g.x, g.y>>

\* The set of triples of the zoom levels z_start..z_end (for typing the file
\* store; the generator itself is the iterator above).
TilesOf(z_start, z_end) ==
    UNION { LET r == _get_tile_range(z)
            IN  {<<z, x, y>> : x \in r.x_min..r.x_max, y \in r.y_min..r.y_max}
            : z \in z_start..z_end }

\* ------------------------------------------------------------- file store

\* Content of a tile file: none, the complete content an earlier run left,
\* the empty file open(path, 'wb') leaves, part of a response body, or a
\* complete response body.
Contents == {"absent", "prev", "empty", "partial", "body"}

\* Line 56 with x written for y.
PathOf_x_for_y(coord) == <<coord[1], coord[2], coord[2], "png">>

\* Line 56: the path {z}/{x}/{y}.png under save_dir.
PathOf(coord) == <<coord[1], coord[2], coord[3], "png">>

\* os.path.dirname of a path or of a triple: {z}/{x}.
DirOf(coord) == <<coord[1], coord[2]>>

\* No application of the range arithmetic has been set up.
NoProbe == [set |-> FALSE]

\* ------------------------------------------------------------ download_tile

\* One download_tile call.  pc is the line it is at:
\*   queued (submitted, no worker yet), exists (58), makedirs (61), get (65),
\*   open (67), write (68), load and store (the two halves of line 69),
\*   ret59, ret70, ret75 (returned at that line), exc61 (raised at line 61).
\* gets counts the requests.get calls, hist lists the attempts that are over
\* with the sleep that followed each, reg is the value line 69 read, pre is
\* the content of the call's file when the call started.
NewCall(coord) ==
    [coord |-> coord, pc |-> "queued", retry |-> 0, gets |-> 0,
     hist |-> <<>>, reg |-> 0, pre |-> "absent"]

Returned(c) == c.pc \in {"ret59", "ret70", "ret75"}
Finished(c) == Returned(c) \/ c.pc = "exc61"
Running(c) == c.pc \notin {"queued", "ret59", "ret70", "ret75", "exc61"}

\* Line 59 as "return True".
ReturnValue_skip_true(c) == c.pc \in {"ret59", "ret70"}

\* The value of a returned call: line 59, 70, 75.
ReturnValue(c) == c.pc = "ret70"

\* Line 63 as range(4).
MoreAttempts_one_more(retry) == retry + 1 <= Retries

\* Line 63: the loop goes on to another attempt after attempt `retry`.
MoreAttempts(retry) == retry + 1 < Retries

\* An attempt that ended without a return: the sleep of line 71 or 74 is
\* recorded, then the next attempt starts or line 75 returns.
AttemptOver(c, res, sleep) ==
    [c EXCEPT !.hist = Append(@, [res |-> res, sleep |-> sleep]),
              !.retry = @ + 1,
              !.pc = IF MoreAttempts(c.retry) THEN "get" ELSE "ret75"]

\* Line 74 as time.sleep(2 * retry).
Except_linear_sleep(c, res) == AttemptOver(c, res, 2 * c.retry)

\* Line 72-74: the except clause.
Except(c, res) == AttemptOver(c, res, Pow2(c.retry))

\* The environment may make one more step fail.
CanFail == faults < (IF config.max_workers = 1 THEN MaxFaults ELSE MaxRaceFaults)

RunningCount == Cardinality({t \in 1..Len(futures) : Running(futures[t])})

\* A pool that starts a thread for every call.
WorkerFree_unbounded == TRUE

\* ThreadPoolExecutor(max_workers): a worker takes the oldest queued call,
\* and there are at most max_workers workers.
WorkerFree == RunningCount < config.max_workers

\* A pool whose workers stop taking calls once a call has raised.
pool_start_until_raise(t) ==
    /\ futures[t].pc = "queued"
    /\ \A u \in 1..Len(futures) : futures[u].pc # "exc61"
    /\ \A u \in 1..(t - 1) : futures[u].pc # "queued"
    /\ WorkerFree
    /\ futures' = [futures EXCEPT ![t].pc = "exists",
                                  ![t].pre = files[PathOf(futures[t].coord)]]
    /\ UNCHANGED <<probe, pauses, config, files, dirs, mainpc, gen, yielded, first, total,
                   downloaded, success, idx, printed, faults>>

pool_start(t) ==
    /\ futures[t].pc = "queued"
    /\ \A u \in 1..(t - 1) : futures[u].pc # "queued"
    /\ WorkerFree
    /\ futures' = [futures EXCEPT ![t].pc = "exists",
                                  ![t].pre = files[PathOf(futures[t].coord)]]
    /\ UNCHANGED <<probe, pauses, config, files, dirs, mainpc, gen, yielded, first, total,
                   downloaded, success, idx, printed, faults>>

\* Line 58 without its "not".
SkipExisting_no_not(coord) == config.overwrite /\ files[PathOf(coord)] # "absent"

\* Line 58: the file exists and must not be overwritten.
SkipExisting(coord) == ~config.overwrite /\ files[PathOf(coord)] # "absent"

\* Line 58-59.
download_tile_exists(t) ==
    /\ futures[t].pc = "exists"
    /\ futures' = [futures EXCEPT ![t].pc =
                      IF SkipExisting(futures[t].coord) THEN "ret59" ELSE "makedirs"]
    /\ UNCHANGED <<probe, pauses, config, files, dirs, mainpc, gen, yielded, first, total,
                   downloaded, success, idx, printed, faults>>

\* Line 61: os.makedirs creates the directory, or raises (outside the try).
download_tile_makedirs(t) ==
    /\ futures[t].pc = "makedirs"
    /\ \/ /\ dirs' = dirs \cup {DirOf(futures[t].coord)}
          /\ futures' = [futures EXCEPT ![t].pc = "get"]
          /\ UNCHANGED faults
       \/ /\ CanFail
          /\ faults' = faults + 1
          /\ futures' = [futures EXCEPT ![t].pc = "exc61"]
          /\ UNCHANGED dirs
    /\ UNCHANGED <<probe, pauses, config, files, mainpc, gen, yielded, first, total,
                   downloaded, success, idx, printed>>

\* Line 65-71 with the file opened before the status is looked at.
download_tile_get_open_first(t) ==
    /\ futures[t].pc = "get"
    /\ LET c == [futures[t] EXCEPT !.gets = @ + 1]
       IN  \/ /\ futures' = [futures EXCEPT ![t] = [c EXCEPT !.pc = "open"]]
              /\ UNCHANGED <<faults, files>>
           \/ /\ CanFail
              /\ faults' = faults + 1
              /\ \/ /\ futures' = [futures EXCEPT ![t] = AttemptOver(c, "status", StatusSleep)]
                    /\ files' = [files EXCEPT ![PathOf(c.coord)] = "empty"]
                 \/ /\ futures' = [futures EXCEPT ![t] = Except(c, "error")]
                    /\ UNCHANGED files
    /\ UNCHANGED <<probe, pauses, config, dirs, mainpc, gen, yielded, first, total,
                   downloaded, success, idx, printed>>

\* Line 65-66 and 71-74: one requests.get.  It answers 200, answers another
\* status (sleep 1), or raises (sleep 2**retry).
download_tile_get(t) ==
    /\ futures[t].pc = "get"
    /\ LET c == [futures[t] EXCEPT !.gets = @ + 1]
       IN  \/ /\ futures' = [futures EXCEPT ![t] = [c EXCEPT !.pc = "open"]]
              /\ UNCHANGED faults
           \/ /\ CanFail
              /\ faults' = faults + 1
              /\ \/ futures' = [futures EXCEPT ![t] = AttemptOver(c, "status", StatusSleep)]
                 \/ futures' = [futures EXCEPT ![t] = Except(c, "error")]
    /\ UNCHANGED <<probe, pauses, config, files, dirs, mainpc, gen, yielded, first, total,
                   downloaded, success, idx, printed>>

\* Line 67: open(path, 'wb') truncates the file under its final name, or raises.
download_tile_open(t) ==
    /\ futures[t].pc = "open"
    /\ \/ /\ files' = [files EXCEPT ![PathOf(futures[t].coord)] = "empty"]
          /\ futures' = [futures EXCEPT ![t].pc = "write"]
          /\ UNCHANGED faults
       \/ /\ CanFail
          /\ faults' = faults + 1
          /\ futures' = [futures EXCEPT ![t] = Except(futures[t], "oserror")]
          /\ UNCHANGED files
    /\ UNCHANGED <<probe, pauses, config, dirs, mainpc, gen, yielded, first, total,
                   downloaded, success, idx, printed>>

\* Line 68: f.write(response.content) writes the whole body, or raises after
\* part of it (the with statement closes the file either way).
download_tile_write(t) ==
    /\ futures[t].pc = "write"
    /\ \/ /\ files' = [files EXCEPT ![PathOf(futures[t].coord)] = "body"]
          /\ futures' = [futures EXCEPT ![t].pc = "load",
                            ![t].hist = Append(@, [res |-> "ok", sleep |-> 0])]
          /\ UNCHANGED faults
       \/ /\ CanFail
          /\ faults' = faults + 1
          /\ files' = [files EXCEPT ![PathOf(futures[t].coord)] = "partial"]
          /\ futures' = [futures EXCEPT ![t] = Except(futures[t], "oserror")]
    /\ UNCHANGED <<probe, pauses, config, dirs, mainpc, gen, yielded, first, total,
                   downloaded, success, idx, printed>>

\* Line 69, first half: self.downloaded is read.
download_tile_load(t) ==
    /\ futures[t].pc = "load"
    /\ futures' = [futures EXCEPT ![t].reg = downloaded, ![t].pc = "store"]
    /\ UNCHANGED <<probe, pauses, config, files, dirs, mainpc, gen, yielded, first, total,
                   downloaded, success, idx, printed, faults>>

\* Line 69, second half, and line 70: the sum is stored, True is returned.
download_tile_store(t) ==
    /\ futures[t].pc = "store"
    /\ downloaded' = futures[t].reg + 1
    /\ futures' = [futures EXCEPT ![t].pc = "ret70"]
    /\ UNCHANGED <<probe, pauses, config, files, dirs, mainpc, gen, yielded, first, total,
                   success, idx, printed, faults>>

Worker(t) ==
    \/ pool_start(t)
    \/ download_tile_exists(t)
    \/ download_tile_makedirs(t)
    \/ download_tile_get(t)
    \/ download_tile_open(t)
    \/ download_tile_write(t)
    \/ download_tile_load(t)
    \/ download_tile_store(t)

\* ---------------------------------------------------------------------- run

\* Line 79, one iteration of sum(1 for _ in self.generate_coordinates()).
run_count ==
    /\ mainpc = "count"
    /\ gen.live
    /\ total' = total + 1
    /\ yielded' = Append(yielded, Triple(gen))
    /\ gen' = gen_resume(gen, config)
    /\ UNCHANGED <<probe, pauses, config, files, dirs, mainpc, first, futures, downloaded,
                   success, idx, printed, faults>>

\* Line 79 leaving the count before the generator is exhausted.
run_counted_early ==
    /\ mainpc = "count"
    /\ first' = yielded
    /\ yielded' = <<>>
    /\ gen' = generate_coordinates(config)
    /\ mainpc' = "submit"
    /\ UNCHANGED <<probe, pauses, config, files, dirs, total, futures, downloaded, success,
                   idx, printed, faults>>

\* Line 79-84: the generator is exhausted, the pool is created and a second
\* generator is made for the loop of line 86.
run_counted ==
    /\ mainpc = "count"
    /\ ~gen.live
    /\ first' = yielded
    /\ yielded' = <<>>
    /\ gen' = generate_coordinates(config)
    /\ mainpc' = "submit"
    /\ UNCHANGED <<probe, pauses, config, files, dirs, total, futures, downloaded, success,
                   idx, printed, faults>>

\* Line 86-89: submit one call, append its future, sleep request_interval.
run_submit ==
    /\ mainpc = "submit"
    /\ gen.live
    /\ futures' = Append(futures, NewCall(Triple(gen)))
    /\ yielded' = Append(yielded, Triple(gen))
    /\ gen' = gen_resume(gen, config)
    /\ pauses' = pauses + 1
    /\ UNCHANGED <<probe, config, files, dirs, mainpc, first, total, downloaded,
                   success, idx, printed, faults>>

\* Line 92-93 with enumerate(futures) taken for a count that starts at 1.
run_submitted_from_one ==
    /\ mainpc = "submit"
    /\ ~gen.live
    /\ mainpc' = "collect"
    /\ success' = 0
    /\ idx' = 1
    /\ UNCHANGED <<probe, pauses, config, files, dirs, gen, yielded, first, total, futures,
                   downloaded, printed, faults>>

\* Line 86 and 92: the generator is exhausted, success = 0.
run_submitted ==
    /\ mainpc = "submit"
    /\ ~gen.live
    /\ mainpc' = "collect"
    /\ success' = 0
    /\ idx' = 0
    /\ UNCHANGED <<probe, pauses, config, files, dirs, gen, yielded, first, total, futures,
                   downloaded, printed, faults>>

\* Line 96: a progress line is printed for index i.
PrintsAt(i) == i % ProgressEvery = 0

\* Line 93-98 for the thread of run() at one of the positions `at`, taking
\* future.result() of future number t once that call has finished.  A call
\* that raised re-raises here, which leaves the loop and the with block.
tally(at, t) ==
    /\ mainpc \in at
    /\ idx < Len(futures)
    /\ LET c == futures[t]
           s == IF ReturnValue(c) THEN success + 1 ELSE success
       IN  /\ Finished(c)
           /\ IF Returned(c)
              THEN /\ success' = s
                   /\ idx' = idx + 1
                   /\ printed' = IF PrintsAt(idx)
                                 THEN Append(printed, [done |-> idx + 1, ok |-> s, of |-> total])
                                 ELSE printed
                   /\ UNCHANGED mainpc
              ELSE /\ mainpc' = "unwind"
                   /\ UNCHANGED <<success, idx, printed>>
    /\ UNCHANGED <<probe, pauses, config, files, dirs, gen, yielded, first, total, futures,
                   downloaded, faults>>

\* The loop of line 93 over as_completed(futures): whichever has finished.
run_collect_as_completed ==
    \E t \in (idx + 1)..Len(futures) : tally({"collect"}, t)

\* The loop of line 93 running beside the loop of line 86.
run_collect_while_submitting == tally({"submit", "collect"}, idx + 1)

\* Line 93-98: the futures are taken in submission order, after the loop of
\* line 86.
run_collect == tally({"collect"}, idx + 1)

\* Line 93: the list of futures is exhausted.
run_collected ==
    /\ mainpc = "collect"
    /\ idx = Len(futures)
    /\ mainpc' = "exit"
    /\ UNCHANGED <<probe, pauses, config, files, dirs, gen, yielded, first, total, futures,
                   downloaded, success, idx, printed, faults>>

\* Line 82: leaving the with block is executor.shutdown(wait=True): it
\* returns when every submitted call has finished.  Then run() returns, or
\* the exception of result() goes on out of run().
run_exit ==
    /\ mainpc \in {"exit", "unwind"}
    /\ \A t \in 1..Len(futures) : Finished(futures[t])
    /\ mainpc' = IF mainpc = "exit" THEN "done" ELSE "raised"
    /\ UNCHANGED <<probe, pauses, config, files, dirs, gen, yielded, first, total, futures,
                   downloaded, success, idx, printed, faults>>

\* ---------------------------------------------------------- specifications

\* The configurations of a run: zoom ranges with 0, 1 and 4 tiles.
RunZooms == {<<1, 0>>, <<0, 0>>, <<1, 1>>}

Configs(zooms) ==
    {[z_start |-> z[1], z_end |-> z[2], max_workers |-> w, overwrite |-> o] :
        z \in zooms, w \in {1, 2}, o \in BOOLEAN}

\* The file stores a call or a run may start on: empty, filled by an earlier
\* complete run, or left by an earlier run after its first tile.
Stores(tiles, first_tile) ==
    LET paths == {PathOf(c) : c \in tiles}
    IN  {[p \in paths |-> "absent"], [p \in paths |-> "prev"],
         [p \in paths |-> IF p = PathOf(first_tile) THEN "prev" ELSE "absent"]}

\* Line 8-10, and the start of run().
Init ==
    /\ config \in Configs(RunZooms)
    /\ files \in Stores(TilesOf(config.z_start, config.z_end),
                        <<config.z_start, _get_tile_range(config.z_start).x_min,
                          _get_tile_range(config.z_start).y_min>>)
    /\ dirs = {DirOf(c) : c \in {d \in DOMAIN files : files[d] # "absent"}}
    /\ mainpc = "count"
    /\ gen = generate_coordinates(config)
    /\ yielded = <<>>
    /\ first = <<>>
    /\ total = 0
    /\ futures = <<>>
    /\ downloaded = 0
    /\ success = 0
    /\ idx = 0
    /\ printed = <<>>
    /\ faults = 0
    /\ pauses = 0
    /\ probe = NoProbe

Main ==
    \/ run_count
    \/ run_counted
    \/ run_submit
    \/ run_submitted
    \/ run_collect
    \/ run_collected
    \/ run_exit

Next == Main \/ \E t \in 1..Len(futures) : Worker(t)

Spec == Init /\ [][Next]_vars

TypeOK ==
    /\ mainpc \in {"count", "submit", "collect", "exit", "unwind", "done", "raised",
                   "enum1", "enum2", "enumerated", "calls", "range"}
    /\ \A c \in DOMAIN files : files[c] \in Contents
    /\ faults \in 0..Max(MaxFaults, MaxRaceFaults)
    /\ \A t \in 1..Len(futures) : futures[t].retry \in 0..Retries

\* Weak fairness: the thread of run() and the worker threads are scheduled
\* by the operating system, and each requests.get returns within its timeout.
\* The runs that start on a store an earlier run left after its first tile
\* and do not overwrite it.
InitFair ==
    /\ Init
    /\ ~config.overwrite
    /\ \E c \in DOMAIN files : files[c] = "prev"
    /\ \E c \in DOMAIN files : files[c] = "absent"

FairSpec ==
    /\ InitFair
    /\ [][Next]_vars
    /\ WF_vars(Main)
    /\ WF_vars(\E t \in 1..Len(futures) : Worker(t))

\* ------------------------------------------- the generator, enumerated twice

NoStore == [c \in {} |-> "absent"]

InitGen ==
    /\ config \in {[z_start |-> a, z_end |-> b, max_workers |-> 1, overwrite |-> FALSE] :
                      a \in 0..MaxZoom, b \in 0..MaxZoom}
    /\ files = NoStore
    /\ dirs = {}
    /\ mainpc = "enum1"
    /\ gen = generate_coordinates(config)
    /\ yielded = <<>>
    /\ first = <<>>
    /\ total = 0
    /\ futures = <<>>
    /\ downloaded = 0
    /\ success = 0
    /\ idx = 0
    /\ printed = <<>>
    /\ faults = 0
    /\ pauses = 0
    /\ probe = NoProbe

\* next() on the generator yields a triple.
enumerate_next ==
    /\ mainpc \in {"enum1", "enum2"}
    /\ gen.live
    /\ yielded' = Append(yielded, Triple(gen))
    /\ gen' = gen_resume(gen, config)
    /\ UNCHANGED <<probe, pauses, config, files, dirs, mainpc, first, total, futures,
                   downloaded, success, idx, printed, faults>>

\* The first enumeration is exhausted: generate_coordinates() is called again.
enumerate_again ==
    /\ mainpc = "enum1"
    /\ ~gen.live
    /\ first' = yielded
    /\ yielded' = <<>>
    /\ gen' = generate_coordinates(config)
    /\ mainpc' = "enum2"
    /\ UNCHANGED <<probe, pauses, config, files, dirs, total, futures, downloaded, success,
                   idx, printed, faults>>

\* The second enumeration is exhausted.
enumerate_done ==
    /\ mainpc = "enum2"
    /\ ~gen.live
    /\ mainpc' = "enumerated"
    /\ UNCHANGED <<probe, pauses, config, files, dirs, gen, yielded, first, total, futures,
                   downloaded, success, idx, printed, faults>>

NextGen == enumerate_next \/ enumerate_again \/ enumerate_done

SpecGen == InitGen /\ [][NextGen]_vars

\* ------------------------------------- download_tile called directly, in turn

\* The tiles the direct calls are made for.
CallTiles == {<<0, 0, 0>>, <<1, 0, 0>>}

InitCalls ==
    /\ config \in {[z_start |-> 0, z_end |-> 1, max_workers |-> 1, overwrite |-> o] :
                      o \in BOOLEAN}
    /\ files \in Stores(CallTiles, <<0, 0, 0>>)
    /\ dirs = {DirOf(c) : c \in {d \in DOMAIN files : files[d] # "absent"}}
    /\ mainpc = "calls"
    /\ gen = Exhausted
    /\ yielded = <<>>
    /\ first = <<>>
    /\ total = 0
    /\ futures \in {[t \in 1..MaxCalls |-> NewCall(f[t])] : f \in [1..MaxCalls -> CallTiles]}
    /\ downloaded = 0
    /\ success = 0
    /\ idx = 0
    /\ printed = <<>>
    /\ faults = 0
    /\ pauses = 0
    /\ probe = NoProbe

NextCalls == \E t \in 1..Len(futures) : Worker(t)

SpecCalls == InitCalls /\ [][NextCalls]_vars

\* ------------------------------------------------------------------- claims

Calls == 1..Len(futures)

Results(c) == {c.hist[k].res : k \in 1..Len(c.hist)}

\* C1: a download_tile call issues at most 3 requests.get, none after the
\* attempt whose 200 response was written, and returns False (line 75) once
\* 3 attempts are over without such an attempt, whatever mix of 200, other
\* status and exception the attempts met.
C1_AtMostThreeGets ==
    \A t \in Calls :
        LET c == futures[t]
        IN  /\ c.gets <= 3
            /\ \A k \in 1..Len(c.hist) :
                  c.hist[k].res = "ok" => k = Len(c.hist) /\ c.gets = k
            /\ (Len(c.hist) = 3 /\ "ok" \notin Results(c)) => c.pc = "ret75" /\ ~ReturnValue(c)
            /\ c.pc = "ret75" => Len(c.hist) = 3 /\ "ok" \notin Results(c)

\* A call that met a non-200 status, an exception and a failed write, and
\* returned at line 75 after its third requests.get.
C1_Witness ==
    \E t \in Calls : /\ futures[t].pc = "ret75"
                     /\ futures[t].gets = 3
                     /\ Results(futures[t]) = {"status", "error", "oserror"}

\* C4: with overwrite false, a call that finds its file present returns at
\* line 59 without a requests.get and leaves the file as it was, and so does
\* every later call for the same tile.
C4_SkipIsIdempotent ==
    \A t \in Calls :
        LET c == futures[t]
        IN  (~config.overwrite /\ c.pre # "absent" /\ c.pc \notin {"queued", "exists"})
                => /\ c.pc = "ret59"
                   /\ ~ReturnValue(c)
                   /\ c.gets = 0
                   /\ c.hist = <<>>
                   /\ files[PathOf(c.coord)] = c.pre

\* Two calls in turn for one tile whose file was there before the first.
C4_Witness ==
    /\ ~config.overwrite
    /\ \E t, u \in Calls :
          /\ t < u
          /\ futures[t].coord = futures[u].coord
          /\ futures[t].pre = "prev"
          /\ futures[t].pc = "ret59"
          /\ futures[u].pc = "ret59"

RECURSIVE ExpectedCount(_, _)
ExpectedCount(z, z_end) ==
    IF z > z_end THEN 0
    ELSE LET r == _get_tile_range(z)
         IN  (r.x_max - r.x_min + 1) * (r.y_max - r.y_min + 1) + ExpectedCount(z + 1, z_end)

LexLess(a, b) ==
    \/ a[1] < b[1]
    \/ a[1] = b[1] /\ a[2] < b[2]
    \/ a[1] = b[1] /\ a[2] = b[2] /\ a[3] < b[3]

\* C10: an enumeration of generate_coordinates yields no triple twice, in the
\* order zoom, then x, then y ascending; when it is exhausted it has yielded
\* sum over z of (x_max - x_min + 1) * (y_max - y_min + 1) triples, all of
\* zoom levels z_start..z_end; a second enumeration yields the same sequence.
C10_GeneratorCountAndOrder ==
    /\ \A i, j \in 1..Len(yielded) : i < j => yielded[i] # yielded[j]
    /\ \A i \in 1..(Len(yielded) - 1) : LexLess(yielded[i], yielded[i + 1])
    /\ \A i \in 1..Len(yielded) : yielded[i][1] \in config.z_start..config.z_end
    /\ ~gen.live => Len(yielded) = ExpectedCount(config.z_start, config.z_end)
    /\ mainpc = "enumerated" => yielded = first

\* Both enumerations of the zoom levels 1..3 (4 + 6 + 9 triples) are done.
C10_Witness ==
    /\ mainpc = "enumerated"
    /\ config.z_start = 1
    /\ config.z_end = 3
    /\ Len(yielded) = 19
    /\ Len(first) = 19

Tallied == 1..idx

\* C2: every error of a call, a failing os.makedirs or write included, ends
\* in a returned False; run() ends normally with every future tallied.
C2_ErrorsContained ==
    mainpc \in {"done", "raised"} =>
        /\ mainpc = "done"
        /\ idx = Len(futures)
        /\ \A t \in Calls : Returned(futures[t])

AllRan ==
    /\ mainpc \notin {"count", "submit"}
    /\ Len(futures) = Len(first)
    /\ \A t \in Calls : futures[t].coord = first[t] /\ Finished(futures[t])

\* C5: in every fair run every triple the generator yields is submitted and
\* its call finishes, also when other calls returned False or raised.
C5_EveryTileRuns == <>AllRan

\* A call raised, result() re-raised it in run(), and the calls submitted after
\* it have all finished.
C5_Witness ==
    /\ AllRan
    /\ mainpc = "raised"
    /\ Len(futures) = 4
    /\ \E t \in 1..3 : futures[t].pc = "exc61" /\ futures[t + 1].pc = "ret70"

\* C6: at most max_workers calls are running at any time, and a queued call
\* starts only when fewer than max_workers are running.
C6_PoolBound ==
    /\ [](RunningCount <= config.max_workers)
    /\ [][\A t \in Calls :
            (futures[t].pc = "queued" /\ futures'[t].pc # "queued")
                => RunningCount < config.max_workers]_vars

\* Two workers are busy and a submitted call waits.
C6_Witness ==
    /\ config.max_workers = 2
    /\ RunningCount = 2
    /\ \E t \in Calls : futures[t].pc = "queued"

\* C7: no step of a worker writes an in-memory variable of the downloader or
\* of run().
C7_WorkersWriteNoCounter ==
    [][(\E t \in Calls : Worker(t)) => UNCHANGED <<downloaded, success, idx, total>>]_vars

\* C8: a tile file holds a complete response body or its complete previous
\* content whenever it exists.
C8_NoPartialFile ==
    \A c \in DOMAIN files : files[c] \in {"absent", "prev", "body"}

AllStatus(c) == Len(c.hist) = 3 /\ \A k \in 1..3 : c.hist[k].res = "status"

\* C9: a call whose 3 attempts all met a non-200 status has returned False
\* and its file is as it was when the call started: absent, or the previous
\* content.
C9_StatusFailuresLeaveFile ==
    \A t \in Calls :
        AllStatus(futures[t])
            => /\ futures[t].pc = "ret75"
               /\ ~ReturnValue(futures[t])
               /\ futures[t].gets = 3
               /\ files[PathOf(futures[t].coord)] = futures[t].pre

\* overwrite is set, the file was there, and all 3 attempts met a non-200.
C9_Witness ==
    /\ config.overwrite
    /\ \E t \in Calls : /\ AllStatus(futures[t])
                        /\ futures[t].pre = "prev"
                        /\ files[PathOf(futures[t].coord)] = "prev"

\* ------------------------------------ the range arithmetic on any two corners

InitRange ==
    /\ probe \in UNION {[set : {TRUE}, done : {FALSE}, zoom : {z},
                         x1 : 0..(Pow2(z) - 1), y1 : 0..(Pow2(z) - 1),
                         x2 : 0..(Pow2(z) - 1), y2 : 0..(Pow2(z) - 1),
                         range : {[x_min |-> 0, x_max |-> 0, y_min |-> 0, y_max |-> 0]}] :
                        z \in 0..MaxZoom}
    /\ config = [z_start |-> probe.zoom, z_end |-> probe.zoom,
                 max_workers |-> 1, overwrite |-> FALSE]
    /\ files = NoStore
    /\ dirs = {}
    /\ mainpc = "range"
    /\ gen = Exhausted
    /\ yielded = <<>>
    /\ first = <<>>
    /\ total = 0
    /\ futures = <<>>
    /\ downloaded = 0
    /\ success = 0
    /\ idx = 0
    /\ printed = <<>>
    /\ faults = 0
    /\ pauses = 0

\* Line 35-41 applied to the two corner tiles of the probe.
get_tile_range_apply ==
    /\ probe.set
    /\ ~probe.done
    /\ probe' = [probe EXCEPT !.done = TRUE,
                    !.range = tile_range_of(probe.x1, probe.y1, probe.x2, probe.y2, probe.zoom)]
    /\ UNCHANGED <<pauses, config, files, dirs, mainpc, gen, yielded, first, total,
                   futures, downloaded, success, idx, printed, faults>>

NextRange == get_tile_range_apply

SpecRange == InitRange /\ [][NextRange]_vars

\* C11: for corner tiles inside the grid 0 .. 2^z - 1 of zoom z, the range is
\* the rectangle spanned by the two corners, one tile wider on every side, cut
\* to the grid: x_min <= x_max, y_min <= y_max, all four inside the grid.
C11_RangeWithinGrid ==
    (probe.set /\ probe.done) =>
        LET r == probe.range
            m == Pow2(probe.zoom) - 1
            Near(v, a, b) == (v >= a - 1 \/ v >= b - 1) /\ (v <= a + 1 \/ v <= b + 1)
        IN  /\ 0 <= r.x_min /\ r.x_min <= r.x_max /\ r.x_max <= m
            /\ 0 <= r.y_min /\ r.y_min <= r.y_max /\ r.y_max <= m
            /\ r.x_min..r.x_max = {x \in 0..m : Near(x, probe.x1, probe.x2)}
            /\ r.y_min..r.y_max = {y \in 0..m : Near(y, probe.y1, probe.y2)}

\* Zoom 3, corners (0, 3) and (7, 4): x is cut at both edges of the grid, y
\* is widened by one tile on both sides.
C11_Witness ==
    /\ probe.set
    /\ probe.done
    /\ probe.zoom = 3
    /\ probe.x1 = 0 /\ probe.x2 = 7 /\ probe.y1 = 3 /\ probe.y2 = 4
    /\ probe.range = [x_min |-> 0, x_max |-> 7, y_min |-> 2, y_max |-> 5]

\* C12: the progress lines are those of the tallied counts 1, 101, 201, ...,
\* each reporting that count, and a run of N >= 1 tiles that has ended has
\* printed ceil(N / 100) of them.
C12_ProgressEveryHundred ==
    /\ \A k \in 1..Len(printed) : printed[k].done = 100 * (k - 1) + 1
    /\ Len(printed) = (idx + 99) \div 100
    /\ (mainpc \in {"done", "raised"} /\ Len(futures) >= 1)
          => Len(printed) = (Len(futures) + 99) \div 100

\* C13: the attempt with index k is followed by a sleep of 2^k seconds (1, 2,
\* 4) when it raised and of 1 second when it met a non-200 status; a call
\* whose 3 attempts all raised a transport error made 3 requests.get, slept
\* 1, 2 and 4 seconds and returned False.
C13_BackoffSchedule ==
    \A t \in Calls :
        LET c == futures[t]
        IN  /\ \A k \in 1..Len(c.hist) :
                  /\ c.hist[k].res \in {"error", "oserror"} => c.hist[k].sleep = <<1, 2, 4>>[k]
                  /\ c.hist[k].res = "status" => c.hist[k].sleep = 1
            /\ (Len(c.hist) = 3 /\ \A k \in 1..3 : c.hist[k].res = "error")
                  => /\ c.gets = 3
                     /\ [k \in 1..3 |-> c.hist[k].sleep] = <<1, 2, 4>>
                     /\ c.pc = "ret75"
                     /\ ~ReturnValue(c)

\* 3 transport errors in a row, and the call has returned.
C13_Witness ==
    \E t \in Calls :
        /\ futures[t].pc = "ret75"
        /\ [k \in 1..3 |-> futures[t].hist[k]] =
              <<[res |-> "error", sleep |-> 1], [res |-> "error", sleep |-> 2],
                [res |-> "error", sleep |-> 4]>>

\* C14: a run that has ended has tallied every submitted call: idx equals
\* total, and every call finished within 3 requests.get.
C14_RunEndsAllTallied ==
    mainpc \in {"done", "raised"} =>
        /\ idx = total
        /\ \A t \in Calls : Finished(futures[t]) /\ futures[t].gets <= 3

\* C15: results are tallied in submission order: the tallied calls are the
\* first idx submitted, each step tallies the result of the next one, and it
\* does so only when that call and all submitted before it have finished,
\* however long ago later calls finished.
C15_TalliedInSubmissionOrder ==
    /\ [](\A t \in Tallied : t <= Len(futures) /\ Returned(futures[t]))
    /\ [][idx' # idx =>
            /\ idx' = idx + 1
            /\ \A u \in 1..(idx + 1) : Finished(futures[u])
            /\ success' = success + (IF futures[idx + 1].pc = "ret70" THEN 1 ELSE 0)
            /\ printed' # printed => printed'[Len(printed')].done = idx + 1]_vars

\* The second call has returned, the first is still running, and nothing is
\* tallied or printed although the loop of line 93 has begun.
C15_Witness ==
    /\ mainpc = "collect"
    /\ idx = 0
    /\ printed = <<>>
    /\ Len(futures) = 4
    /\ Running(futures[1])
    /\ futures[2].pc = "ret70"

InRun == mainpc \in {"submit", "collect", "exit", "unwind", "done", "raised"}

\* C16: total is the number of triples of a complete enumeration, made before
\* the first call is submitted; the calls are submitted one per step in the
\* order of that enumeration, each followed by one sleep of request_interval,
\* and once the loop of line 86 is over their number is total.
C16_CountThenSubmitInOrder ==
    /\ [](/\ futures # <<>> => InRun
          /\ InRun => /\ total = Len(first)
                      /\ total = ExpectedCount(config.z_start, config.z_end)
                      /\ Len(futures) <= total
                      /\ \A t \in Calls : futures[t].coord = first[t]
                      /\ pauses = Len(futures)
          /\ (InRun /\ mainpc # "submit") => Len(futures) = total)
    /\ [][Len(futures') # Len(futures) =>
            /\ mainpc = "submit"
            /\ Len(futures') = Len(futures) + 1
            /\ \A t \in Calls : futures'[t].coord = futures[t].coord]_vars

\* A run of the 4 tiles of zoom 1 that has ended.
C16_Witness ==
    /\ mainpc = "done"
    /\ total = 4
    /\ Len(futures) = 4
    /\ pauses = 4
    /\ [t \in 1..4 |-> futures[t].coord] = <<<<1, 0, 0>>, <<1, 0, 1>>, <<1, 1, 0>>, <<1, 1, 1>>>>

FileOf(t) == files[PathOf(futures[t].coord)]

\* C17: the calls of a run have pairwise different paths, so no two of them
\* are ever between open and the end of write on one file; a file differs from
\* what the run found only if the call of its own tile has started, and a
\* call that returned True has left a complete body in the file of its tile.
C17_OneCallPerPath ==
    /\ \A t, u \in Calls :
          t # u => /\ futures[t].coord # futures[u].coord
                   /\ PathOf(futures[t].coord) # PathOf(futures[u].coord)
    /\ \A t \in Calls :
          /\ futures[t].pc = "ret70" => FileOf(t) = "body"
          /\ futures[t].pc \in {"exists", "makedirs"} => FileOf(t) = futures[t].pre
    /\ \A p \in DOMAIN files :
          files[p] \notin {"absent", "prev"}
              => \E t \in Calls : PathOf(futures[t].coord) = p
                                  /\ futures[t].pc \notin {"queued", "exists", "makedirs"}

\* Two workers write the files of two tiles at the same time, and a third
\* call has returned True with its file complete.
C17_Witness ==
    /\ Len(futures) = 4
    /\ futures[1].pc = "ret70"
    /\ FileOf(1) = "body"
    /\ futures[2].pc = "write"
    /\ futures[3].pc = "write"
    /\ FileOf(2) = "empty"
    /\ FileOf(3) = "empty"

\* C18: once run() is over with every call finished, downloaded is the number
\* of calls that returned True at line 70.
C18_DownloadedCountsWrites ==
    (mainpc \in {"done", "raised"})
        => downloaded = Cardinality({t \in Calls : futures[t].pc = "ret70"})

\* C19: while a coordinate is still to be submitted no result has been
\* tallied and no progress line printed, and a step that tallies or prints is
\* taken after the loop of line 86 with all total calls submitted.
C19_CollectAfterLastSubmit ==
    /\ []((gen.live \/ mainpc \in {"count", "submit"} \/ Len(futures) < total)
             => idx = 0 /\ printed = <<>>)
    /\ [][(idx' # idx \/ printed' # printed)
             => mainpc = "collect" /\ ~gen.live /\ Len(futures) = total]_vars

\* A call has returned while the generator still has coordinates to submit,
\* and nothing is tallied.
C19_Witness ==
    /\ mainpc = "submit"
    /\ gen.live
    /\ \E t \in Calls : Returned(futures[t])
    /\ idx = 0
    /\ printed = <<>>

\* C20: from the start of the collection loop on, 0 <= success <= idx <=
\* total; neither counter ever decreases, success grows by at most 1 and
\* only together with idx, and idx grows by exactly 1 per tallied result.
C20_CountersOrdered ==
    /\ [](mainpc \in {"collect", "exit", "unwind", "done", "raised"}
             => 0 <= success /\ success <= idx /\ idx <= total)
    /\ [][/\ success' >= success
          /\ success' <= success + 1
          /\ idx' >= idx
          /\ idx' <= idx + 1
          /\ success' # success => idx' = idx + 1]_vars

\* A run of four tiles is over with all four tallied, some but not all of
\* them successes.
C20_Witness ==
    /\ mainpc = "done"
    /\ total = 4
    /\ idx = 4
    /\ 0 < success
    /\ success < idx
====
